---- MODULE Spec2Model ----
(***************************************************************************)
(* nocontext: a generator of context-free forwarders for Go functions      *)
(* named ...WithContext.  src/main.go holds two generations of the tool:   *)
(*   - the first generator, main() of lines 106-154, which renders the     *)
(*     forwarder as text through getReceiver/getType/getSignature and      *)
(*     passes the buffer to imports.Process;                               *)
(*   - the current generator, run() of lines 181-291, which rewrites the   *)
(*     parsed declaration and prints it with go/printer.                   *)
(* Both are modelled; prog says which one a behaviour executes.            *)
(*                                                                         *)
(* Strings that the code inspects (names, paths) are sequences of          *)
(* one-character strings; rendered Go text is a sequence of tokens.        *)
(***************************************************************************)
EXTENDS Integers, Sequences, FiniteSets, TLC

\* ------------------------------------------------------------ bounds
\* .go files that may exist in the target directory
MaxFiles == 3
\* top-level declarations per parsed file (orchestration runs)
MaxDecls == 2
\* entries of a parameter list, the leading context entry included
MaxParams == 3

\* ------------------------------------------------------------ strings
UpperCase ==
    {"A","B","C","D","E","F","G","H","I","J","K","L","M",
     "N","O","P","Q","R","S","T","U","V","W","X","Y","Z"}

\* strings.HasSuffix
HasSuffix(s, suffix) ==
    /\ Len(s) >= Len(suffix)
    /\ SubSeq(s, Len(s) - Len(suffix) + 1, Len(s)) = suffix

\* strings.TrimSuffix
TrimSuffix(s, suffix) ==
    IF HasSuffix(s, suffix) THEN SubSeq(s, 1, Len(s) - Len(suffix)) ELSE s

\* ast.IsExported, and the test 'A' <= name[0] <= 'Z' of the first generator
IsExported(name) == Len(name) > 0 /\ name[1] \in UpperCase

\* the literal "WithContext"
WithContext == <<"W","i","t","h","C","o","n","t","e","x","t">>

\* the literal ".go"
DotGo == <<".","g","o">>

\* filepath.Join of a clean directory name and an entry name
Join(dir, name) == dir \o <<"/">> \o name

\* strings.Join over token sequences
RECURSIVE JoinTokens(_, _)
JoinTokens(parts, sep) ==
    IF parts = <<>> THEN <<>>
    ELSE IF Len(parts) = 1 THEN parts[1]
    ELSE parts[1] \o sep \o JoinTokens(Tail(parts), sep)

\* ------------------------------------------------------------ syntax trees
\* ast.Expr nodes that occur as types
Ident(n)        == [kind |-> "Ident", name |-> n]
StarExpr(x)     == [kind |-> "StarExpr", x |-> x]
SelectorExpr(x, sel) == [kind |-> "SelectorExpr", x |-> x, sel |-> sel]
\* len = "" is a slice type, any other len a fixed-length array
ArrayType(len, elt) == [kind |-> "ArrayType", len |-> len, elt |-> elt]
MapType(k, v)   == [kind |-> "MapType", key |-> k, value |-> v]
FuncType        == [kind |-> "FuncType"]
ChanType(elt)   == [kind |-> "ChanType", elt |-> elt]

\* ast.Field: names sharing one type
Field(names, type) == [names |-> names, type |-> type]

\* *ast.FieldList: a nil pointer, or a list of fields
NilList       == [isNil |-> TRUE, list |-> <<>>]
FieldList(l)  == [isNil |-> FALSE, list |-> l]

\* the type as written in the source, which is also what go/printer prints
RECURSIVE SourceText(_)
SourceText(t) ==
    CASE t.kind = "Ident"        -> <<t.name>>
      [] t.kind = "StarExpr"     -> <<"*">> \o SourceText(t.x)
      [] t.kind = "SelectorExpr" -> SourceText(t.x) \o <<".", t.sel>>
      [] t.kind = "ArrayType"    ->
            (IF t.len = "" THEN <<"[", "]">> ELSE <<"[", t.len, "]">>)
                \o SourceText(t.elt)
      [] t.kind = "MapType"      ->
            <<"map", "[">> \o SourceText(t.key) \o <<"]">> \o SourceText(t.value)
      [] t.kind = "FuncType"     -> <<"func", "(", ")">>
      [] t.kind = "ChanType"     -> <<"chan", " ">> \o SourceText(t.elt)

\* getType (first generator)
RECURSIVE getType(_)
getType(t) ==
    CASE t.kind = "SelectorExpr" -> <<t.sel, ".">> \o getType(t.x)
      [] t.kind = "StarExpr"     -> <<"*">> \o getType(t.x)
      [] t.kind = "Ident"        -> <<t.name>>
      [] t.kind = "ArrayType"    -> <<"[", "]">> \o getType(t.elt)
      [] t.kind = "MapType"      ->
            <<"[">> \o getType(t.key) \o <<"]">> \o getType(t.value)
      [] OTHER                   -> <<>>

\* the "[DEBUG] expr = ..." lines one getType call prints
RECURSIVE getTypeDebug(_)
getTypeDebug(t) ==
    CASE t.kind = "SelectorExpr" -> getTypeDebug(t.x)
      [] t.kind = "StarExpr"     -> getTypeDebug(t.x)
      [] t.kind = "Ident"        -> 0
      [] t.kind = "ArrayType"    -> getTypeDebug(t.elt)
      [] t.kind = "MapType"      -> getTypeDebug(t.key) + getTypeDebug(t.value)
      [] OTHER                   -> 1

\* mutant: only the first name of each field is forwarded
RECURSIVE getNamesFirstOnly(_)
getNamesFirstOnly(fields) ==
    IF fields = <<>> THEN <<>>
    ELSE (IF fields[1].names = <<>> THEN <<>> ELSE <<fields[1].names[1]>>)
            \o getNamesFirstOnly(Tail(fields))

\* getNames, and the nested loop of lines 267-271: every name of every field,
\* in order
RECURSIVE getNames(_)
getNames(fields) ==
    IF fields = <<>> THEN <<>>
    ELSE fields[1].names \o getNames(Tail(fields))

\* one entry of getSignature: "a, b " followed by the type
SignatureEntry(field) ==
    LET argStr == JoinTokens([i \in 1..Len(field.names) |-> <<field.names[i]>>],
                             <<",", " ">>)
    IN  (IF Len(argStr) > 0 THEN argStr \o <<" ">> ELSE argStr)
            \o getType(field.type)

\* getSignature (first generator)
getSignature(fields) ==
    JoinTokens([i \in 1..Len(fields) |-> SignatureEntry(fields[i])], <<",", " ">>)

\* go/printer on a field list: names, a blank, the type as written
PrintField(field) ==
    LET argStr == JoinTokens([i \in 1..Len(field.names) |-> <<field.names[i]>>],
                             <<",", " ">>)
    IN  (IF Len(argStr) > 0 THEN argStr \o <<" ">> ELSE argStr)
            \o SourceText(field.type)

PrintFields(fields) ==
    JoinTokens([i \in 1..Len(fields) |-> PrintField(fields[i])], <<",", " ">>)

\* ------------------------------------------------------------ declarations
\* a top-level declaration: an *ast.FuncDecl, or any other declaration
FuncDecl(name, recv, params, results, hasBody) ==
    [kind |-> "FuncDecl", name |-> name, recv |-> recv, params |-> params,
     results |-> results, hasBody |-> hasBody]

GenDecl ==
    [kind |-> "GenDecl", name |-> <<>>, recv |-> NilList, params |-> <<>>,
     results |-> NilList, hasBody |-> FALSE]

\* the expression context.Background() built at lines 260-263 / 137
CtxBackground == "context.Background()"

\* the declaration passes the three `continue` tests of the declaration loop
\* (lines 235-244; lines 120-130 in the first generator)
Selected(d) ==
    /\ d.kind = "FuncDecl"
    /\ IsExported(d.name)
    /\ HasSuffix(d.name, WithContext)

\* mutant: the slice drops the last entry instead of the first
RetainedParamsDropLast(d) == SubSeq(d.params, 1, Len(d.params) - 1)

\* fdecl.Type.Params.List[1:] (line 248; lines 134 and 136)
RetainedParams(d) == Tail(d.params)

\* the receiver variable: fdecl.Recv.List[0].Names[0].Name
RecvVar(d) == IF d.recv.isNil THEN "" ELSE d.recv.list[1].names[1]

\* run() panics on the declaration: the slice [1:] of an empty list (248), no
\* receiver name to index (252), no body to assign to (274, 280)
RunPanics(d) ==
    IF Len(d.params) = 0 THEN TRUE
    ELSE IF ~d.recv.isNil /\ Len(d.recv.list[1].names) = 0 THEN TRUE
    ELSE ~d.hasBody

\* the call expression's arguments (lines 257-271)
RunCallArgs(d) == <<CtxBackground>> \o getNames(RetainedParams(d))

\* the single statement of the new body (lines 273-285)
RunStmt(d) == IF ~d.results.isNil THEN "ReturnStmt" ELSE "ExprStmt"

\* the declaration run() prints (lines 246-287)
RunForwarder(d) ==
    [name    |-> TrimSuffix(d.name, WithContext),
     recv    |-> d.recv,
     params  |-> RetainedParams(d),
     results |-> d.results,
     stmt    |-> RunStmt(d),
     fun     |-> [x |-> RecvVar(d), sel |-> d.name],
     args    |-> RunCallArgs(d),
     types   |-> [recv    |-> [i \in 1..Len(d.recv.list) |->
                                  SourceText(d.recv.list[i].type)],
                  params  |-> [i \in 1..Len(RetainedParams(d)) |->
                                  SourceText(RetainedParams(d)[i].type)],
                  results |-> [i \in 1..Len(d.results.list) |->
                                  SourceText(d.results.list[i].type)]],
     sig     |-> [recv    |-> PrintFields(d.recv.list),
                  params  |-> PrintFields(RetainedParams(d)),
                  results |-> PrintFields(d.results.list)]]

\* main() panics on the declaration: decl.Recv is nil (35), no receiver name
\* (38), the slice [1:] of an empty list (134), fn.Type.Results is nil (135)
MainPanics(d) ==
    IF d.recv.isNil THEN TRUE
    ELSE IF Len(d.recv.list[1].names) = 0 THEN TRUE
    ELSE IF Len(d.params) = 0 THEN TRUE
    ELSE d.results.isNil

\* getReceiver's second result: "(name type)"
getReceiver(d) ==
    IF Len(d.recv.list) = 0 THEN <<>>
    ELSE <<"(", d.recv.list[1].names[1], " ">>
            \o getType(d.recv.list[1].type) \o <<")">>

\* names of lines 136-137
MainCallArgs(d) == <<CtxBackground>> \o getNames(RetainedParams(d))

\* the text main() writes for one declaration (lines 132-147)
MainForwarder(d) ==
    [name    |-> TrimSuffix(d.name, WithContext),
     recv    |-> d.recv,
     params  |-> RetainedParams(d),
     results |-> d.results,
     stmt    |-> "ReturnStmt",
     fun     |-> [x |-> RecvVar(d), sel |-> d.name],
     args    |-> MainCallArgs(d),
     types   |-> [recv    |-> [i \in 1..Len(d.recv.list) |->
                                  getType(d.recv.list[i].type)],
                  params  |-> [i \in 1..Len(RetainedParams(d)) |->
                                  getType(RetainedParams(d)[i].type)],
                  results |-> [i \in 1..Len(d.results.list) |->
                                  getType(d.results.list[i].type)]],
     sig     |-> [recv    |-> getReceiver(d),
                  params  |-> getSignature(RetainedParams(d)),
                  results |-> LET r == getSignature(d.results.list)
                              IN  IF Len(r) > 0 THEN <<"(">> \o r \o <<")">>
                                  ELSE r]]

\* the "[DEBUG]" lines main() prints while rendering one declaration
RECURSIVE FieldsDebug(_)
FieldsDebug(fields) ==
    IF fields = <<>> THEN 0
    ELSE getTypeDebug(fields[1].type) + FieldsDebug(Tail(fields))

MainDebug(d) ==
    FieldsDebug(d.recv.list) + FieldsDebug(RetainedParams(d))
        + FieldsDebug(d.results.list)

\* ------------------------------------------------------------ inputs
Letters == <<"a", "b", "c", "e", "f", "g">>

\* the target directory, its .go entries and one entry that is no .go file
Dir        == <<"d">>
GoName(i)  == <<Letters[i]>> \o DotGo
NotesTxt   == <<"n", ".", "t", "x", "t">>
GoPaths    == {Join(Dir, GoName(i)) : i \in 1..MaxFiles}
\* an output path outside the directory
OutGo      == <<"o", "u", "t">> \o DotGo

FileStatus == {"absent", "unreadable", "malformed", "ok"}

CtxField   == Field(<<"ctx">>, SelectorExpr(Ident("context"), "Context"))
ErrResult  == FieldList(<<Field(<<>>, Ident("error"))>>)
ClientRecv == FieldList(<<Field(<<"c">>, StarExpr(Ident("Client")))>>)
AnonRecv   == FieldList(<<Field(<<>>, StarExpr(Ident("Client")))>>)

GetWithContext == <<"G", "e", "t">> \o WithContext
getWithContext == <<"g", "e", "t">> \o WithContext
GetWithcontext == <<"G", "e", "t", "W", "i", "t", "h", "c", "o", "n", "t", "e", "x", "t">>

\* declarations of the files of an orchestration run:
\*   func (c *Client) GetWithContext(ctx context.Context, id string) error {..}
\*   func GetWithContext() {..}
\*   func (c *Client) getWithContext(ctx context.Context) error {..}
\*   func GetWithcontext(ctx context.Context) {..}
\*   a declaration that is no function
SmallDecls ==
    { FuncDecl(GetWithContext, ClientRecv,
               <<CtxField, Field(<<"id">>, Ident("string"))>>, ErrResult, TRUE),
      FuncDecl(GetWithContext, NilList, <<>>, NilList, TRUE),
      FuncDecl(getWithContext, ClientRecv, <<CtxField>>, ErrResult, TRUE),
      FuncDecl(GetWithcontext, NilList, <<CtxField>>, NilList, TRUE),
      GenDecl }

\* what parsing a well-formed file may yield
FileContents == UNION {[1..n -> SmallDecls] : n \in 0..MaxDecls}

\* parameter entries of the single-declaration runs
NameLists  == {<<>>, <<"a">>, <<"b", "c">>}
ParamTypes ==
    { Ident("int"),
      SelectorExpr(Ident("io"), "Reader"),
      MapType(Ident("string"), ArrayType("", StarExpr(Ident("Item")))),
      ArrayType("3", Ident("int")),
      FuncType }
Fields     == {Field(n, t) : n \in NameLists, t \in ParamTypes}
ParamLists ==
    {<<>>} \cup
    UNION {{<<CtxField>> \o rest : rest \in [1..n -> Fields]} : n \in 0..(MaxParams - 1)}

\* one declaration of any shape the claims speak of; a few have no body
\* (functions implemented outside Go)
RichDecls ==
    {FuncDecl(n, r, p, res, TRUE) :
        n \in {GetWithContext, getWithContext},
        r \in {NilList, ClientRecv, AnonRecv},
        p \in ParamLists,
        res \in {NilList, FieldList(<<>>), ErrResult}}
    \cup {FuncDecl(GetWithContext, NilList, <<CtxField>>, res, FALSE) :
            res \in {NilList, ErrResult}}

\* glossary: an exported function whose name ends in the suffix, with >= 1 parameter
Eligible(d) ==
    /\ d.kind = "FuncDecl"
    /\ Len(d.name) > 0 /\ d.name[1] \in UpperCase
    /\ Len(d.name) >= Len(WithContext)
    /\ \A k \in 1..Len(WithContext) :
          d.name[Len(d.name) - Len(WithContext) + k] = WithContext[k]
    /\ Len(d.params) >= 1

EligibleOf(decls) == SelectSeq(decls, Eligible)

\* ------------------------------------------------------------ state
VARIABLES
    prog,        \* "main": the first generator; "run": the current one
    gofile,      \* os.Getenv("GOFILE")
    fArg,        \* -f (<<>>: not given)
    dArg,        \* -d
    oArg,        \* -o
    status,      \* the file system: what opening and parsing each path gives
    pc,          \* "start","sink","files","decls"; "done","fatal","panic"
    err,         \* the error behind a fatal exit
    listed,      \* ioutil.ReadDir was called
    created,     \* os.Create was called
    fileNames,   \* the work list
    idx,         \* position of the file loop in fileNames
    cur,         \* declarations of the current file not yet visited
    out,         \* forwarders written to the sink (stdout or the -o file)
    body,        \* forwarders in GenSrc's buffer (first generator)
    origin,      \* history: the file and declaration each forwarder came from
    eligibleParsed, \* history: eligible declarations of the files parsed so far
    logs,        \* paths of the "failed to parse:" diagnostics
    visited,     \* paths handed to parseFile / getAST
    opened,      \* paths opened for reading
    debug        \* number of "[DEBUG]" lines printed by getType

vars == <<prog, gofile, fArg, dArg, oArg, status, pc, err, listed, created,
          fileNames, idx, cur, out, body, origin, eligibleParsed, logs,
          visited, opened, debug>>

inputs == <<prog, gofile, fArg, dArg, oArg, status>>

\* flag.String("f", os.Getenv("GOFILE"), ...) after flag.Parse (lines 108, 182)
fileName   == IF fArg # <<>> THEN fArg ELSE gofile
dirName    == dArg
outputName == oArg

StatusOf(p) == IF p \in DOMAIN status THEN status[p] ELSE "absent"

\* exit status of the process
ExitStatus == CASE pc = "done" -> 0 [] pc = "fatal" -> 1 [] pc = "panic" -> 2

Init ==
    /\ prog \in {"main", "run"}
    /\ gofile \in {<<>>, Join(Dir, GoName(2))}
    /\ fArg \in {<<>>, Join(Dir, GoName(1))}
    /\ dArg \in (IF prog = "run" THEN {<<>>, Dir} ELSE {<<>>})
    /\ oArg \in (IF prog = "run" THEN {<<>>, Join(Dir, GoName(1)), OutGo} ELSE {<<>>})
    /\ status \in [GoPaths -> FileStatus]
    /\ pc = "start"
    /\ err = ""
    /\ listed = FALSE
    /\ created = FALSE
    /\ fileNames = <<>>
    /\ idx = 1
    /\ cur = <<>>
    /\ out = <<>>
    /\ body = <<>>
    /\ origin = <<>>
    /\ eligibleParsed = <<>>
    /\ logs = <<>>
    /\ visited = {}
    /\ opened = {}
    /\ debug = 0

\* ------------------------------------------------------------ run()
\* mutant: only the missing target is rejected
ConfigErrorNeitherOnly == fileName = <<>> /\ dirName = <<>>

\* the two tests of lines 188-195
ConfigError ==
    \/ (fileName = <<>> /\ dirName = <<>>)
    \/ (fileName # <<>> /\ dirName # <<>>)

\* the directory's entries as ioutil.ReadDir returns them, sorted by name
DirEntries ==
    SelectSeq([i \in 1..MaxFiles |-> GoName(i)],
              LAMBDA n : StatusOf(Join(Dir, n)) # "absent")
        \o <<NotesTxt>>

\* lines 206-212: the entries ending in ".go", joined to the directory
GoFilesOf(entries) ==
    LET kept == SelectSeq(entries, LAMBDA n : HasSuffix(n, DotGo))
    IN  [i \in 1..Len(kept) |-> Join(dirName, kept[i])]

\* line 226: the input path is the output path
IsOutputPath(fpath) == fpath = outputName

\* lines 230-233: after log.Print the file loop continues
AfterParseError == "files"

\* parseFile / getAST fails on the path
ParseFails(fpath) == StatusOf(fpath) # "ok"

\* os.Open / ioutil.ReadFile succeeds on the path
Opens(fpath) == StatusOf(fpath) \in {"malformed", "ok"}

Fatal(e) ==
    /\ pc' = "fatal"
    /\ err' = e

\* lines 188-195: neither or both of -f and -d
RunConfigError ==
    /\ prog = "run" /\ pc = "start"
    /\ ConfigError
    /\ Fatal(IF fileName = <<>> THEN "require -f or -d"
             ELSE "either -f or -d, not both")
    /\ UNCHANGED <<inputs, listed, created, fileNames, idx, cur, out, body,
                   origin, eligibleParsed, logs, visited, opened, debug>>

\* lines 199-200: the single target file
RunResolveFile ==
    /\ prog = "run" /\ pc = "start"
    /\ ~ConfigError
    /\ fileName # <<>>
    /\ fileNames' = <<fileName>>
    /\ pc' = "sink"
    /\ UNCHANGED <<inputs, err, listed, created, idx, cur, out, body, origin,
                   eligibleParsed, logs, visited, opened, debug>>

\* lines 201-212: the directory's .go files
RunReadDir ==
    /\ prog = "run" /\ pc = "start"
    /\ ~ConfigError
    /\ fileName = <<>> /\ dirName # <<>>
    /\ listed' = TRUE
    /\ fileNames' = GoFilesOf(DirEntries)
    /\ pc' = "sink"
    /\ UNCHANGED <<inputs, err, created, idx, cur, out, body, origin,
                   eligibleParsed, logs, visited, opened, debug>>

\* lines 202-205: the directory cannot be read
RunReadDirFail ==
    /\ prog = "run" /\ pc = "start"
    /\ ~ConfigError
    /\ fileName = <<>> /\ dirName # <<>>
    /\ listed' = TRUE
    /\ Fatal("read dir")
    /\ UNCHANGED <<inputs, created, fileNames, idx, cur, out, body, origin,
                   eligibleParsed, logs, visited, opened, debug>>

\* line 215: no -o, the sink is os.Stdout
RunUseStdout ==
    /\ prog = "run" /\ pc = "sink"
    /\ outputName = <<>>
    /\ pc' = "files"
    /\ UNCHANGED <<inputs, err, listed, created, fileNames, idx, cur, out,
                   body, origin, eligibleParsed, logs, visited, opened, debug>>

\* lines 216-223: the sink is the created (truncated) -o file
RunCreateOutput ==
    /\ prog = "run" /\ pc = "sink"
    /\ outputName # <<>>
    /\ created' = TRUE
    /\ pc' = "files"
    /\ UNCHANGED <<inputs, err, listed, fileNames, idx, cur, out, body,
                   origin, eligibleParsed, logs, visited, opened, debug>>

\* lines 217-220: os.Create fails
RunCreateFail ==
    /\ prog = "run" /\ pc = "sink"
    /\ outputName # <<>>
    /\ created' = TRUE
    /\ Fatal("create file")
    /\ UNCHANGED <<inputs, listed, fileNames, idx, cur, out, body, origin,
                   eligibleParsed, logs, visited, opened, debug>>

\* lines 226-228: the output path is not read
RunSkipOutput ==
    /\ prog = "run" /\ pc = "files"
    /\ idx <= Len(fileNames)
    /\ IsOutputPath(fileNames[idx])
    /\ idx' = idx + 1
    /\ UNCHANGED <<inputs, pc, err, listed, created, fileNames, cur, out,
                   body, origin, eligibleParsed, logs, visited, opened, debug>>

\* lines 229-233: parseFile fails, the failure is logged and the loop goes on
RunParseFail ==
    /\ prog = "run" /\ pc = "files"
    /\ idx <= Len(fileNames)
    /\ ~IsOutputPath(fileNames[idx])
    /\ ParseFails(fileNames[idx])
    /\ visited' = visited \cup {fileNames[idx]}
    /\ opened' = IF Opens(fileNames[idx]) THEN opened \cup {fileNames[idx]}
                 ELSE opened
    /\ logs' = Append(logs, fileNames[idx])
    /\ idx' = idx + 1
    /\ pc' = AfterParseError
    /\ UNCHANGED <<inputs, err, listed, created, fileNames, cur, out,
                   body, origin, eligibleParsed, debug>>

\* line 229, 234: parseFile returns the file's declarations
RunParseOk ==
    /\ prog = "run" /\ pc = "files"
    /\ idx <= Len(fileNames)
    /\ ~IsOutputPath(fileNames[idx])
    /\ ~ParseFails(fileNames[idx])
    /\ \E decls \in FileContents :
          /\ cur' = decls
          /\ eligibleParsed' = eligibleParsed \o EligibleOf(decls)
    /\ visited' = visited \cup {fileNames[idx]}
    /\ opened' = opened \cup {fileNames[idx]}
    /\ pc' = "decls"
    /\ UNCHANGED <<inputs, err, listed, created, fileNames, idx, out, body,
                   origin, logs, debug>>

\* lines 235-244: the three `continue`s of the declaration loop
RunSkipDecl ==
    /\ prog = "run" /\ pc = "decls"
    /\ cur # <<>>
    /\ ~Selected(Head(cur))
    /\ cur' = Tail(cur)
    /\ UNCHANGED <<inputs, pc, err, listed, created, fileNames, idx, out,
                   body, origin, eligibleParsed, logs, visited, opened, debug>>

\* lines 246-287: the forwarder is built and printed to the sink
RunForward ==
    /\ prog = "run" /\ pc = "decls"
    /\ cur # <<>>
    /\ Selected(Head(cur))
    /\ ~RunPanics(Head(cur))
    /\ out' = Append(out, RunForwarder(Head(cur)))
    /\ origin' = Append(origin, [file |-> fileNames[idx], decl |-> Head(cur)])
    /\ cur' = Tail(cur)
    /\ UNCHANGED <<inputs, pc, err, listed, created, fileNames, idx, body,
                   eligibleParsed, logs, visited, opened, debug>>

\* lines 248, 252, 274, 280: a run-time panic ends the process
RunPanic ==
    /\ prog = "run" /\ pc = "decls"
    /\ cur # <<>>
    /\ Selected(Head(cur))
    /\ RunPanics(Head(cur))
    /\ pc' = "panic"
    /\ UNCHANGED <<inputs, err, listed, created, fileNames, idx, cur, out,
                   body, origin, eligibleParsed, logs, visited, opened, debug>>

\* line 234: the declarations of the file are exhausted
RunNextFile ==
    /\ prog = "run" /\ pc = "decls"
    /\ cur = <<>>
    /\ idx' = idx + 1
    /\ pc' = "files"
    /\ UNCHANGED <<inputs, err, listed, created, fileNames, cur, out, body,
                   origin, eligibleParsed, logs, visited, opened, debug>>

\* line 290: return nil, exit status 0
RunReturn ==
    /\ prog = "run" /\ pc = "files"
    /\ idx > Len(fileNames)
    /\ pc' = "done"
    /\ UNCHANGED <<inputs, err, listed, created, fileNames, idx, cur, out,
                   body, origin, eligibleParsed, logs, visited, opened, debug>>

\* ------------------------------------------------------------ main()
\* lines 111-114: getAST fails, log.Fatal
MainGetASTFail ==
    /\ prog = "main" /\ pc = "start"
    /\ ParseFails(fileName)
    /\ visited' = visited \cup {fileName}
    /\ opened' = IF Opens(fileName) THEN opened \cup {fileName} ELSE opened
    /\ Fatal("getAST failed")
    /\ UNCHANGED <<inputs, listed, created, fileNames, idx, cur, out, body,
                   origin, eligibleParsed, logs, debug>>

\* line 111: getAST returns the file
MainGetASTOk ==
    /\ prog = "main" /\ pc = "start"
    /\ ~ParseFails(fileName)
    /\ \E decls \in FileContents :
          /\ cur' = decls
          /\ eligibleParsed' = eligibleParsed \o EligibleOf(decls)
    /\ visited' = visited \cup {fileName}
    /\ opened' = opened \cup {fileName}
    /\ pc' = "decls"
    /\ UNCHANGED <<inputs, err, listed, created, fileNames, idx, out, body,
                   origin, logs, debug>>

\* lines 120-130
MainSkipDecl ==
    /\ prog = "main" /\ pc = "decls"
    /\ cur # <<>>
    /\ ~Selected(Head(cur))
    /\ cur' = Tail(cur)
    /\ UNCHANGED <<inputs, pc, err, listed, created, fileNames, idx, out,
                   body, origin, eligibleParsed, logs, visited, opened, debug>>

\* lines 132-147: the forwarder's text is written to the buffer
MainForward ==
    /\ prog = "main" /\ pc = "decls"
    /\ cur # <<>>
    /\ Selected(Head(cur))
    /\ ~MainPanics(Head(cur))
    /\ body' = Append(body, MainForwarder(Head(cur)))
    /\ origin' = Append(origin, [file |-> fileName, decl |-> Head(cur)])
    /\ debug' = debug + MainDebug(Head(cur))
    /\ cur' = Tail(cur)
    /\ UNCHANGED <<inputs, pc, err, listed, created, fileNames, idx, out,
                   eligibleParsed, logs, visited, opened>>

\* lines 35, 38, 134, 135: a run-time panic ends the process
MainPanic ==
    /\ prog = "main" /\ pc = "decls"
    /\ cur # <<>>
    /\ Selected(Head(cur))
    /\ MainPanics(Head(cur))
    /\ pc' = "panic"
    /\ UNCHANGED <<inputs, err, listed, created, fileNames, idx, cur, out,
                   body, origin, eligibleParsed, logs, visited, opened, debug>>

\* lines 149, 153: imports.Process accepts the buffer, the text is printed
MainGenerate ==
    /\ prog = "main" /\ pc = "decls"
    /\ cur = <<>>
    /\ out' = body
    /\ pc' = "done"
    /\ UNCHANGED <<inputs, err, listed, created, fileNames, idx, cur, body,
                   origin, eligibleParsed, logs, visited, opened, debug>>

\* lines 149-152: imports.Process rejects the buffer, log.Fatal
MainGenerateFail ==
    /\ prog = "main" /\ pc = "decls"
    /\ cur = <<>>
    /\ Fatal("generate")
    /\ UNCHANGED <<inputs, listed, created, fileNames, idx, cur, out, body,
                   origin, eligibleParsed, logs, visited, opened, debug>>

\* ------------------------------------------------------------ specifications
Next ==
    \/ RunConfigError
    \/ RunResolveFile
    \/ RunReadDir
    \/ RunReadDirFail
    \/ RunUseStdout
    \/ RunCreateOutput
    \/ RunCreateFail
    \/ RunSkipOutput
    \/ RunParseFail
    \/ RunParseOk
    \/ RunSkipDecl
    \/ RunForward
    \/ RunPanic
    \/ RunNextFile
    \/ RunReturn
    \/ MainGetASTFail
    \/ MainGetASTOk
    \/ MainSkipDecl
    \/ MainForward
    \/ MainPanic
    \/ MainGenerate
    \/ MainGenerateFail

\* whole runs of either generator over a directory of small files
Spec == Init /\ [][Next]_vars

\* the state after the single target file, holding one declaration of any
\* modelled shape, was parsed (-f d/a.go, no -d, no -o)
InitDecl ==
    /\ prog \in {"main", "run"}
    /\ gofile = <<>>
    /\ fArg = Join(Dir, GoName(1))
    /\ dArg = <<>>
    /\ oArg = <<>>
    /\ status = [p \in GoPaths |-> "ok"]
    /\ pc = "decls"
    /\ err = ""
    /\ listed = FALSE
    /\ created = FALSE
    /\ fileNames = IF prog = "run" THEN <<Join(Dir, GoName(1))>> ELSE <<>>
    /\ idx = 1
    /\ \E d \in RichDecls :
          /\ cur = <<d>>
          /\ eligibleParsed = EligibleOf(<<d>>)
    /\ out = <<>>
    /\ body = <<>>
    /\ origin = <<>>
    /\ logs = <<>>
    /\ visited = {Join(Dir, GoName(1))}
    /\ opened = {Join(Dir, GoName(1))}
    /\ debug = 0

NextDecl ==
    \/ RunSkipDecl
    \/ RunForward
    \/ RunPanic
    \/ RunNextFile
    \/ RunReturn
    \/ MainSkipDecl
    \/ MainForward
    \/ MainPanic
    \/ MainGenerate
    \/ MainGenerateFail

\* the declaration loop of either generator over one declaration
DeclSpec == InitDecl /\ [][NextDecl]_vars

\* ------------------------------------------------------------ properties
\* the forwarders synthesized so far: printed (run) or buffered (main)
Forwarders == IF prog = "main" THEN body ELSE out

Terminated == pc \in {"done", "fatal", "panic"}

FileMode == fileName # <<>> /\ dirName = <<>>
DirMode  == prog = "run" /\ fileName = <<>> /\ dirName # <<>>


\* total number of names of the first k fields
RECURSIVE NamesBefore(_, _)
NamesBefore(fields, k) ==
    IF k = 0 THEN 0 ELSE NamesBefore(fields, k - 1) + Len(fields[k].names)

C3_StmtMatchesResults ==
    \A i \in 1..Len(Forwarders) :
        Forwarders[i].stmt =
            IF Len(origin[i].decl.results.list) > 0 THEN "ReturnStmt"
            ELSE "ExprStmt"

\* C4: a function declaration that is not eligible (unexported, no suffix, or
\* no parameters) yields no forwarder and never ends the run: a run that
\* stopped in a panic stopped at an eligible declaration.
C4_IneligibleSkipped ==
    /\ \A i \in 1..Len(origin) : Eligible(origin[i].decl)
    /\ pc = "panic" => Eligible(Head(cur))

\* the paths of the work list that fail to open or parse
FailingPaths ==
    SelectSeq(fileNames, LAMBDA p : p # outputName /\ StatusOf(p) # "ok")

\* C5: a directory run over a work list with failing files ends with exit
\* status 0, having logged each failing file once, in listing order, taken no
\* declaration from a failing file and emitted every eligible declaration of
\* the files that parse, in order.
C5_DirModeSkipsFailures ==
    (DirMode /\ pc \in {"done", "panic"} /\ FailingPaths # <<>>) =>
        /\ ExitStatus = 0
        /\ logs = FailingPaths
        /\ \A i \in 1..Len(origin) : StatusOf(origin[i].file) = "ok"
        /\ Len(out) = Len(eligibleParsed)
        /\ \A i \in 1..Len(out) : origin[i].decl = eligibleParsed[i]

\* C6: in single-file mode a target that cannot be opened or parsed ends the
\* run with a non-zero exit status.
C6_FileModeFailureFatal ==
    (FileMode /\ Terminated /\ fileName \in visited /\ StatusOf(fileName) # "ok")
        => ExitStatus # 0

\* the target selection is missing or double, read off the raw inputs
NoTarget   == fArg = <<>> /\ gofile = <<>> /\ dArg = <<>>
BothTargets == (fArg # <<>> \/ gofile # <<>>) /\ dArg # <<>>

\* C7: with no target, or with a file and a directory target (the file may
\* come from GOFILE), the run ends non-zero with a configuration error before
\* any work: no listing, no output file, no input opened, nothing written.
C7_ConfigErrorBeforeWork ==
    (NoTarget \/ BothTargets) =>
        /\ ~listed
        /\ ~created
        /\ opened = {}
        /\ out = <<>> /\ body = <<>>
        /\ pc \in {"start", "fatal"}
        /\ prog = "run" =>
              /\ fileNames = <<>> /\ visited = {}
              /\ pc = "fatal" =>
                    err \in {"require -f or -d", "either -f or -d, not both"}

\* -d together with a file target that only GOFILE supplies was refused
C7_Witness ==
    /\ prog = "run"
    /\ pc = "fatal"
    /\ fArg = <<>> /\ gofile # <<>> /\ dArg # <<>>
    /\ oArg # <<>>
    /\ err = "either -f or -d, not both"

\* C8: a run whose work list holds the output path ends without having
\* handed that path to the parser and without a forwarder from it, and with
\* every other path of the work list handed to the parser.
C8_OutputPathExcluded ==
    (/\ prog = "run" /\ outputName # <<>> /\ pc \in {"done", "panic"}
     /\ \E j \in 1..Len(fileNames) : fileNames[j] = outputName) =>
        /\ outputName \notin visited
        /\ outputName \notin opened
        /\ \A i \in 1..Len(origin) : origin[i].file # outputName
        /\ visited = {fileNames[j] : j \in 1..Len(fileNames)} \ {outputName}

\* the shapes of the type descriptor model: identifier, pointer, qualified
\* name, slice, map
RECURSIVE Supported(_)
Supported(t) ==
    CASE t.kind = "Ident"        -> TRUE
      [] t.kind = "StarExpr"     -> Supported(t.x)
      [] t.kind = "SelectorExpr" -> Supported(t.x)
      [] t.kind = "ArrayType"    -> t.len = "" /\ Supported(t.elt)
      [] t.kind = "MapType"      -> Supported(t.key) /\ Supported(t.value)
      [] OTHER                   -> FALSE

\* C9: every supported type of the receiver, of the retained parameters and
\* of the results is emitted as written in the source.
C9_TypesVerbatim ==
    \A i \in 1..Len(Forwarders) :
        LET D  == origin[i].decl
            Dn == Forwarders[i]
        IN  /\ \A k \in 1..Len(D.recv.list) :
                  Supported(D.recv.list[k].type) =>
                      Dn.types.recv[k] = SourceText(D.recv.list[k].type)
            /\ \A k \in 1..(Len(D.params) - 1) :
                  Supported(D.params[k + 1].type) =>
                      Dn.types.params[k] = SourceText(D.params[k + 1].type)
            /\ \A k \in 1..Len(D.results.list) :
                  Supported(D.results.list[k].type) =>
                      Dn.types.results[k] = SourceText(D.results.list[k].type)

\* C10: the text-rendering generator synthesizes nothing from a declaration
\* whose receiver or retained parameter has an unsupported type: its run is
\* fatal instead.
C10_UnsupportedTypeFatal ==
    prog = "main" =>
        \A i \in 1..Len(origin) :
            LET D == origin[i].decl
            IN  /\ \A k \in 1..Len(D.recv.list) : Supported(D.recv.list[k].type)
                /\ \A k \in 2..Len(D.params) : Supported(D.params[k].type)

====
